---- MODULE Spec2Model ----
(***************************************************************************)
(* Model of the POST /send_api handler of app.py (send_api).               *)
(*                                                                         *)
(* Strings are sequences of characters, so that str.strip(), the f-string  *)
(* concatenation of the prompt and the exact comparison with the           *)
(* "DEBUG_MOCK" sentinel are computed and not assumed.  The two outbound   *)
(* services (newspaper3k Article download/parse, OpenRouter chat           *)
(* completion) are the environment: the handler is split at the two calls, *)
(* and what a call returns or raises is chosen nondeterministically.       *)
(***************************************************************************)
EXTENDS Integers, Sequences, FiniteSets, TLC

VARIABLES
    OPENROUTER_API_KEY, \* module global read from the environment at import
    pc,                 \* position of the handler
    data,               \* request.get_json(): a dict, modelled as a function
    received_text,      \* local of send_api
    article_text,       \* article.text as returned by the extractor
    full_prompt,        \* local of send_api
    chat_completion,    \* local of send_api: what the API call returned
    calls,              \* outbound calls made for the current request
    response            \* what the handler returned

vars == <<OPENROUTER_API_KEY, pc, data, received_text, article_text,
          full_prompt, chat_completion, calls, response>>

---------------------------------------------------------------------------
(* Bounds and value domains *)

MaxLen == 2

WS == " "
Chars == {WS, "a"}

StrUpTo(n) == UNION {[1..k -> Chars] : k \in 0..n}

DEBUG_MOCK == <<"D", "E", "B", "U", "G", "_", "M", "O", "C", "K">>

\* string literals of the handler; a literal that is never taken apart is
\* one symbol
DEFAULT_SYSTEM_PROMPT == <<"DEFAULT_SYSTEM_PROMPT">>
SEPARATOR == <<"\n", "\n", "-", "-", "-", "\n", "\n">>
MOCK_TEXT == <<"MOCK_PROCESSED_TEXT">>
PLACEHOLDER == <<"NO_VALID_AI_RESPONSE">>
MSG_PROCESSED == <<"MSG_PROCESSED_BY_AI">>
MSG_MOCK == <<"MSG_MOCK_RESPONSE">>
ERR_NO_KEY == <<"ERR_API_KEY_NOT_CONFIGURED">>
ERR_EXTRACT_EMPTY == <<"ERR_COULD_NOT_EXTRACT_BODY">>
ERR_URL == <<"ERR_URL_UNEXPECTED">>
ERR_NO_INPUT == <<"ERR_ENTER_TEXT_OR_URL">>
ERR_RATE_LIMIT == <<"ERR_RATE_LIMIT">>
ERR_AI == <<"ERR_AI_COMMUNICATION">>

Strings == StrUpTo(MaxLen) \cup {DEBUG_MOCK}

\* JSON values of the request fields: a string or null
JStr(s) == [t |-> "str", s |-> s]
JNull == [t |-> "null", s |-> <<>>]
JValues == {JStr(s) : s \in Strings} \cup {JNull}

Keys == {"url", "text", "context"}
Requests == UNION {[K -> JValues] : K \in SUBSET Keys}

ApiKeys == {JNull, JStr(<<>>), JStr(<<"a">>)}

\* str(e) of an exception raised by an outbound call
ExcTexts == {<<"a">>, <<"a", WS, "a">>}

\* article.text produced by a successful download() and parse()
ArticleTexts == StrUpTo(MaxLen)

\* the chat completion object: choices is a list (empty, or one choice);
\* a choice has a message or None; a message has content, a string or None
Contents == {JNull, JStr(<<>>), JStr(<<"a">>), JStr(<<WS, "a">>)}
Choices == [has_message : BOOLEAN, content : Contents]
Completions == {[choices |-> <<>>]} \cup {[choices |-> <<c>>] : c \in Choices}
NoCompletion == [choices |-> <<>>]
NoData == [k \in {} |-> JNull]

NoResponse == [status |-> 0, body |-> [none |-> JNull]]

---------------------------------------------------------------------------
(* Pure parts of the handler *)

Whitespace == {WS, "\n", "\t"}

RECURSIVE LStrip(_)
LStrip(s) ==
    IF s = <<>> THEN s
    ELSE IF Head(s) \in Whitespace THEN LStrip(Tail(s)) ELSE s

RECURSIVE RStrip(_)
RStrip(s) ==
    IF s = <<>> THEN s
    ELSE IF s[Len(s)] \in Whitespace THEN RStrip(SubSeq(s, 1, Len(s) - 1))
         ELSE s

\* str.strip()
Strip(s) == RStrip(LStrip(s))

\* jsonify({"error": msg}), status
ErrorResponse(msg, status) ==
    [status |-> status, body |-> [error |-> JStr(msg)]]

\* jsonify({"message": m, "processed_text": p}) with the default status
OkResponse(m, p) ==
    [status |-> 200, body |-> [message |-> JStr(m), processed_text |-> p]]

\* an exception that leaves send_api: the framework answers 500 with its
\* own page, not with a JSON error body
UnhandledResponse ==
    [status |-> 500, body |-> [html |-> JStr(<<"INTERNAL_SERVER_ERROR">>)]]

KeyConfigured_Always(k) == TRUE

\* line 53: not (not OPENROUTER_API_KEY)
KeyConfigured(k) == k.t = "str" /\ k.s # <<>>

\* truth value of the dict
DictTruthy(d) == DOMAIN d # {}

IsMock_AfterUrl(d) ==
    /\ DictTruthy(d)
    /\ "text" \in DOMAIN d
    /\ d["text"] = JStr(DEBUG_MOCK)
    /\ ~("url" \in DOMAIN d /\ d["url"].t = "str" /\ Strip(d["url"].s) # <<>>)

\* line 71: data and data.get('text') == 'DEBUG_MOCK'
IsMock(d) ==
    /\ DictTruthy(d)
    /\ "text" \in DOMAIN d
    /\ d["text"] = JStr(DEBUG_MOCK)

\* line 83 and line 102: .strip() of a field that is None raises
StripRaises(d, k) == k \in DOMAIN d /\ d[k].t = "null"

HasUrl_TextFirst(d) ==
    /\ DictTruthy(d)
    /\ "url" \in DOMAIN d
    /\ d["url"].t = "str"
    /\ Strip(d["url"].s) # <<>>
    /\ ~("text" \in DOMAIN d /\ d["text"].t = "str" /\ Strip(d["text"].s) # <<>>)

\* line 83: data and 'url' in data and data['url'].strip()
HasUrl(d) ==
    /\ DictTruthy(d)
    /\ "url" \in DOMAIN d
    /\ d["url"].t = "str"
    /\ Strip(d["url"].s) # <<>>

HasText_NoStrip(d) ==
    /\ DictTruthy(d)
    /\ "text" \in DOMAIN d
    /\ d["text"].t = "str"
    /\ d["text"].s # <<>>

\* line 102: data and 'text' in data and data['text'].strip()
HasText(d) ==
    /\ DictTruthy(d)
    /\ "text" \in DOMAIN d
    /\ d["text"].t = "str"
    /\ Strip(d["text"].s) # <<>>

ExtractedEmpty_NoStrip(t) == t = <<>>

\* line 93: not received_text.strip()
ExtractedEmpty(t) == Strip(t) = <<>>

SystemPrompt_NoStrip(d) ==
    IF /\ "context" \in DOMAIN d
       /\ d["context"].t = "str"
       /\ d["context"].s # <<>>
       /\ Strip(d["context"].s) # <<>>
    THEN d["context"].s
    ELSE DEFAULT_SYSTEM_PROMPT

\* lines 111-116
SystemPrompt(d) ==
    IF /\ "context" \in DOMAIN d
       /\ d["context"].t = "str"
       /\ d["context"].s # <<>>
       /\ Strip(d["context"].s) # <<>>
    THEN Strip(d["context"].s)
    ELSE DEFAULT_SYSTEM_PROMPT

\* line 125: f"{system_prompt}\n\n---\n\n{received_text}"
FullPrompt(system_prompt, text) == system_prompt \o SEPARATOR \o text

\* lines 135-138
ProcessedText(c) ==
    IF c.choices # <<>> /\ c.choices[1].has_message
    THEN c.choices[1].content
    ELSE JStr(PLACEHOLDER)

ProviderError_Leak(e) == ErrorResponse(ERR_AI \o e, 500)

\* line 149: the body of the generic 500, for the caught exception e
ProviderError(e) == ErrorResponse(ERR_AI, 500)

\* an outbound call, as recorded when it is made
Call(svc, arg) == [svc |-> svc, arg |-> arg, outcome |-> "pending", exc |-> <<>>]

\* the last call of the log, completed with how it ended
Finish(cs, outcome, e) ==
    [cs EXCEPT ![Len(cs)] = [@ EXCEPT !.outcome = outcome, !.exc = e]]

---------------------------------------------------------------------------
(* The handler *)

Init ==
    /\ OPENROUTER_API_KEY \in ApiKeys
    /\ pc = "idle"
    /\ data = NoData
    /\ received_text = <<>>
    /\ article_text = <<>>
    /\ full_prompt = <<>>
    /\ chat_completion = NoCompletion
    /\ calls = <<>>
    /\ response = NoResponse

Respond(r) ==
    /\ response' = r
    /\ pc' = "done"

\* a POST /send_api request arrives with JSON body d
Receive(d) ==
    /\ pc = "idle"
    /\ pc' = "start"
    /\ data' = d
    /\ UNCHANGED <<OPENROUTER_API_KEY, received_text, article_text,
                   full_prompt, chat_completion, calls, response>>

\* the response has been sent: nothing of the request is kept, the next
\* request starts from the state after import
Served ==
    /\ pc = "done"
    /\ pc' = "idle"
    /\ data' = NoData
    /\ received_text' = <<>>
    /\ article_text' = <<>>
    /\ full_prompt' = <<>>
    /\ chat_completion' = NoCompletion
    /\ calls' = <<>>
    /\ response' = NoResponse
    /\ UNCHANGED OPENROUTER_API_KEY

\* lines 53-55
NoApiKey ==
    /\ pc = "start"
    /\ ~KeyConfigured(OPENROUTER_API_KEY)
    /\ Respond(ErrorResponse(ERR_NO_KEY, 500))
    /\ UNCHANGED <<OPENROUTER_API_KEY, data, received_text, article_text,
                   full_prompt, chat_completion, calls>>

\* lines 71-77
MockResponse ==
    /\ pc = "start"
    /\ KeyConfigured(OPENROUTER_API_KEY)
    /\ IsMock(data)
    /\ Respond(OkResponse(MSG_MOCK, JStr(MOCK_TEXT)))
    /\ UNCHANGED <<OPENROUTER_API_KEY, data, received_text, article_text,
                   full_prompt, chat_completion, calls>>

\* lines 83-90: the url branch, up to the download of the article
CallExtractor ==
    /\ pc = "start"
    /\ KeyConfigured(OPENROUTER_API_KEY)
    /\ ~IsMock(data)
    /\ ~StripRaises(data, "url")
    /\ HasUrl(data)
    /\ calls' = Append(calls, Call("extractor", Strip(data["url"].s)))
    /\ pc' = "extracting"
    /\ UNCHANGED <<OPENROUTER_API_KEY, data, received_text, article_text,
                   full_prompt, chat_completion, response>>

\* lines 91-95: download() and parse() returned, article.text is t
ExtractorReturns(t) ==
    /\ pc = "extracting"
    /\ article_text' = t
    /\ received_text' = t
    /\ IF ExtractedEmpty(t)
       THEN /\ calls' = Finish(calls, "empty", <<>>)
            /\ Respond(ErrorResponse(ERR_EXTRACT_EMPTY, 400))
       ELSE /\ calls' = Finish(calls, "ok", <<>>)
            /\ pc' = "prompt"
            /\ UNCHANGED response
    /\ UNCHANGED <<OPENROUTER_API_KEY, data, full_prompt, chat_completion>>

ExtractorRaises_Fallback(e) ==
    /\ pc = "extracting"
    /\ calls' = Finish(calls, "raised", e)
    /\ IF "text" \in DOMAIN data /\ data["text"].t = "str"
          /\ Strip(data["text"].s) # <<>>
       THEN /\ received_text' = data["text"].s
            /\ pc' = "prompt"
            /\ UNCHANGED response
       ELSE /\ Respond(ErrorResponse(ERR_URL, 500))
            /\ UNCHANGED received_text
    /\ UNCHANGED <<OPENROUTER_API_KEY, data, article_text, full_prompt, chat_completion>>

\* lines 97-99: download() or parse() raised an exception with text e
ExtractorRaises(e) ==
    /\ pc = "extracting"
    /\ calls' = Finish(calls, "raised", e)
    /\ Respond(ErrorResponse(ERR_URL, 500))
    /\ UNCHANGED <<OPENROUTER_API_KEY, data, received_text, article_text,
                   full_prompt, chat_completion>>

\* lines 102-103
UseText ==
    /\ pc = "start"
    /\ KeyConfigured(OPENROUTER_API_KEY)
    /\ ~IsMock(data)
    /\ ~StripRaises(data, "url")
    /\ ~HasUrl(data)
    /\ ~StripRaises(data, "text")
    /\ HasText(data)
    /\ received_text' = data["text"].s
    /\ pc' = "prompt"
    /\ UNCHANGED <<OPENROUTER_API_KEY, data, article_text, full_prompt, chat_completion,
                   calls, response>>

\* lines 106-108
MissingInput ==
    /\ pc = "start"
    /\ KeyConfigured(OPENROUTER_API_KEY)
    /\ ~IsMock(data)
    /\ ~StripRaises(data, "url")
    /\ ~HasUrl(data)
    /\ ~StripRaises(data, "text")
    /\ ~HasText(data)
    /\ Respond(ErrorResponse(ERR_NO_INPUT, 400))
    /\ UNCHANGED <<OPENROUTER_API_KEY, data, received_text, article_text,
                   full_prompt, chat_completion, calls>>

\* lines 83 and 102: a field that is null has no strip(); the
\* AttributeError is raised outside of any try block
UnhandledError ==
    /\ pc = "start"
    /\ KeyConfigured(OPENROUTER_API_KEY)
    /\ ~IsMock(data)
    /\ \/ StripRaises(data, "url")
       \/ ~HasUrl(data) /\ StripRaises(data, "text")
    /\ Respond(UnhandledResponse)
    /\ UNCHANGED <<OPENROUTER_API_KEY, data, received_text, article_text,
                   full_prompt, chat_completion, calls>>

\* lines 111-132: the prompt is built and the chat completion is requested
CallSummarizer ==
    /\ pc = "prompt"
    /\ full_prompt' = FullPrompt(SystemPrompt(data), received_text)
    /\ calls' = Append(calls, Call("llm", full_prompt'))
    /\ pc' = "summarizing"
    /\ UNCHANGED <<chat_completion, OPENROUTER_API_KEY, data, received_text, article_text,
                   response>>

\* lines 135-140: the call returned the completion c
ApiReturns(c) ==
    /\ pc = "summarizing"
    /\ chat_completion' = c
    /\ calls' = Finish(calls, "ok", <<>>)
    /\ Respond(OkResponse(MSG_PROCESSED, ProcessedText(c)))
    /\ UNCHANGED <<OPENROUTER_API_KEY, data, received_text, article_text,
                   full_prompt>>

ApiRateLimited_Retry(e) ==
    /\ pc = "summarizing"
    /\ IF Len(SelectSeq(calls, LAMBDA c : c.svc = "llm")) < 2
       THEN /\ calls' = Append(Finish(calls, "rate_limited", e),
                               Call("llm", full_prompt))
            /\ UNCHANGED <<pc, response>>
       ELSE /\ calls' = Finish(calls, "rate_limited", e)
            /\ Respond(ErrorResponse(ERR_RATE_LIMIT, 429))
    /\ UNCHANGED <<OPENROUTER_API_KEY, data, received_text, article_text,
                   full_prompt, chat_completion>>

\* lines 142-144: the call raised RateLimitError with text e
ApiRateLimited(e) ==
    /\ pc = "summarizing"
    /\ calls' = Finish(calls, "rate_limited", e)
    /\ Respond(ErrorResponse(ERR_RATE_LIMIT, 429))
    /\ UNCHANGED <<OPENROUTER_API_KEY, data, received_text, article_text,
                   full_prompt, chat_completion>>

\* lines 146-149: the call raised another Exception with text e
ApiFails(e) ==
    /\ pc = "summarizing"
    /\ calls' = Finish(calls, "raised", e)
    /\ Respond(ProviderError(e))
    /\ UNCHANGED <<OPENROUTER_API_KEY, data, received_text, article_text,
                   full_prompt, chat_completion>>

Next ==
    \/ pc = "idle" /\ \E d \in Requests : Receive(d)
    \/ Served
    \/ NoApiKey
    \/ MockResponse
    \/ CallExtractor
    \/ \E t \in ArticleTexts : ExtractorReturns(t)
    \/ \E e \in ExcTexts : ExtractorRaises(e)
    \/ UseText
    \/ MissingInput
    \/ UnhandledError
    \/ CallSummarizer
    \/ \E c \in Completions : ApiReturns(c)
    \/ \E e \in ExcTexts : ApiRateLimited(e)
    \/ \E e \in ExcTexts : ApiFails(e)

Spec == Init /\ [][Next]_vars

---------------------------------------------------------------------------
(* Vocabulary of the properties.  It is written from the wording of the   *)
(* properties and uses none of the operators of the handler above.        *)

Blank(s) == \A i \in 1..Len(s) : s[i] = WS

FieldAbsentOrBlank(d, k) == k \notin DOMAIN d \/ (d[k].t = "str" /\ Blank(d[k].s))

FieldNonBlank(d, k) == k \in DOMAIN d /\ d[k].t = "str" /\ ~Blank(d[k].s)

Configured == OPENROUTER_API_KEY \notin {JNull, JStr(<<>>)}

Sentinel == "text" \in DOMAIN data /\ data["text"] = JStr(DEBUG_MOCK)

InRequest == pc # "idle"

Responded == pc = "done"

CallsTo(svc) == {i \in 1..Len(calls) : calls[i].svc = svc}

BeginsWith(s, p) == Len(p) <= Len(s) /\ SubSeq(s, 1, Len(p)) = p

EndsWith(s, p) == Len(p) <= Len(s) /\ SubSeq(s, Len(s) - Len(p) + 1, Len(s)) = p

Contains(s, sub) ==
    \E i \in 1..(Len(s) - Len(sub) + 1) : SubSeq(s, i, i + Len(sub) - 1) = sub

HasErrorBody(r) == "error" \in DOMAIN r.body /\ r.body["error"].t = "str"

\* x is the string c without the whitespace around it
Trimmed(c, x) ==
    /\ x # <<>>
    /\ x[1] # WS
    /\ x[Len(x)] # WS
    /\ \E i \in 1..Len(c) :
          /\ i + Len(x) - 1 <= Len(c)
          /\ SubSeq(c, i, i + Len(x) - 1) = x
          /\ Blank(SubSeq(c, 1, i - 1))
          /\ Blank(SubSeq(c, i + Len(x), Len(c)))

---------------------------------------------------------------------------
(* Properties *)

\* C1: with the API key configured, a request whose url and text are each
\* absent or blank (a body without fields included) is answered 400 with an
\* error body, and neither the extractor nor the summarization API is called.
C1_MissingInputIs400 ==
    (InRequest /\ Configured
        /\ FieldAbsentOrBlank(data, "url") /\ FieldAbsentOrBlank(data, "text"))
    => /\ pc \in {"start", "done"}
       /\ calls = <<>>
       /\ Responded => response.status = 400 /\ HasErrorBody(response)

C1_Witness ==
    /\ Responded /\ Configured
    /\ "url" \in DOMAIN data /\ data["url"] = JStr(<<WS>>)
    /\ "text" \in DOMAIN data /\ data["text"] = JStr(<<WS, WS>>)
    /\ response.status = 400

\* C2: with the API key configured, a request whose text is exactly
\* "DEBUG_MOCK" is answered 200 with the fixed mock processed_text whatever
\* url and context are, and no outbound call is made for it.
C2_MockShortCircuits ==
    (InRequest /\ Configured /\ Sentinel)
    => /\ pc \in {"start", "done"}
       /\ calls = <<>>
       /\ Responded =>
            /\ response.status = 200
            /\ "processed_text" \in DOMAIN response.body
            /\ response.body["processed_text"] = JStr(MOCK_TEXT)

C2_Witness ==
    /\ Responded /\ Configured /\ Sentinel
    /\ FieldNonBlank(data, "url")
    /\ "context" \in DOMAIN data
    /\ response.status = 200

\* C3: when the API key is not configured (unset or empty), every request,
\* whatever its body, is answered 500 with an error body and no extraction
\* and no summarization call is made.
C3_NoKeyIs500 ==
    (InRequest /\ ~Configured)
    => /\ pc \in {"start", "done"}
       /\ calls = <<>>
       /\ Responded => response.status = 500 /\ HasErrorBody(response)

C3_Witness ==
    /\ Responded /\ OPENROUTER_API_KEY = JNull /\ Sentinel
    /\ FieldNonBlank(data, "url")
    /\ response.status = 500

\* C4: the text of the prompt sent to the summarization API is the extracted
\* article text whenever url is non-blank (also when a non-blank text field
\* is present), and is the text field whenever url is absent or blank and
\* text is non-blank; a request with a non-blank url whose extraction gave
\* non-blank text does reach the summarization call.
C4_UrlTakesPrecedence ==
    /\ \A i \in CallsTo("llm") :
          /\ FieldNonBlank(data, "url") =>
                /\ ~Blank(article_text)
                /\ EndsWith(calls[i].arg, SEPARATOR \o article_text)
                /\ \E j \in CallsTo("extractor") : j < i /\ calls[j].outcome = "ok"
          /\ (FieldAbsentOrBlank(data, "url") /\ FieldNonBlank(data, "text")) =>
                /\ EndsWith(calls[i].arg, SEPARATOR \o data["text"].s)
                /\ CallsTo("extractor") = {}
    /\ (Responded /\ FieldNonBlank(data, "url")
           /\ \E j \in CallsTo("extractor") :
                 calls[j].outcome \in {"ok", "empty"} /\ ~Blank(article_text))
       => CallsTo("llm") # {}
    /\ (Responded /\ Configured /\ ~Sentinel
           /\ FieldAbsentOrBlank(data, "url") /\ FieldNonBlank(data, "text"))
       => CallsTo("llm") # {}

C4_Witness ==
    /\ pc = "summarizing"
    /\ FieldNonBlank(data, "url") /\ FieldNonBlank(data, "text")
    /\ data["text"].s # article_text
    /\ calls[Len(calls)].arg = full_prompt
    /\ EndsWith(full_prompt, SEPARATOR \o article_text)

\* C5: when the extractor returns empty or whitespace-only text for a
\* non-blank url, the answer is 400 with an error body, the summarization
\* API is not called, and a non-blank text field is not used instead.
C5_EmptyExtractionIs400 ==
    \A j \in CallsTo("extractor") :
        (calls[j].outcome \in {"ok", "empty"} /\ Blank(article_text))
        => /\ Responded
           /\ response.status = 400 /\ HasErrorBody(response)
           /\ CallsTo("llm") = {}

C5_Witness ==
    /\ Responded
    /\ CallsTo("extractor") # {}
    /\ calls[Len(calls)].outcome = "empty"
    /\ article_text = <<WS>>
    /\ FieldNonBlank(data, "text")
    /\ response.status = 400

\* C6 as stated: the prompt begins with the context value when context is
\* supplied and with the default instruction when context is absent, and is
\* followed by the separator and the text to summarize.
C6_PromptBeginsWithContext ==
    \A i \in CallsTo("llm") :
        /\ ("context" \in DOMAIN data /\ data["context"].t = "str") =>
              /\ BeginsWith(calls[i].arg, data["context"].s)
              /\ EndsWith(calls[i].arg, SEPARATOR \o received_text)
        /\ ("context" \notin DOMAIN data) =>
              calls[i].arg = DEFAULT_SYSTEM_PROMPT \o SEPARATOR \o received_text

\* C6 amended: the prompt is the context value with the whitespace around it
\* removed when context is a non-blank string, and the default instruction
\* when context is absent, null or blank; in both cases followed by the
\* separator and the text to summarize.
C6_PromptBeginsWithTrimmedContext ==
    \A i \in CallsTo("llm") :
        /\ FieldNonBlank(data, "context") =>
              \E n \in 1..Len(data["context"].s) :
                  /\ Trimmed(data["context"].s, SubSeq(calls[i].arg, 1, n))
                  /\ calls[i].arg =
                        SubSeq(calls[i].arg, 1, n) \o SEPARATOR \o received_text
        /\ ~FieldNonBlank(data, "context") =>
              calls[i].arg = DEFAULT_SYSTEM_PROMPT \o SEPARATOR \o received_text

C6_Witness ==
    /\ pc = "summarizing"
    /\ "context" \in DOMAIN data /\ data["context"] = JStr(<<WS, "a">>)
    /\ received_text = <<"a", WS>>
    /\ calls[Len(calls)].arg = <<"a">> \o SEPARATOR \o <<"a", WS>>

\* C7: a rate-limit error of the summarization call is answered 429 with an
\* error body; any other error is answered 500 with the fixed generic
\* message, which does not contain the text of the exception.
C7_ProviderErrorMapping ==
    \A i \in CallsTo("llm") :
        /\ calls[i].outcome = "rate_limited" =>
              /\ Responded
              /\ response.status = 429 /\ HasErrorBody(response)
        /\ calls[i].outcome = "raised" =>
              /\ Responded
              /\ response.status = 500
              /\ HasErrorBody(response)
              /\ response.body["error"] = JStr(ERR_AI)
              /\ ~Contains(response.body["error"].s, calls[i].exc)

C7_Witness ==
    /\ Responded
    /\ CallsTo("llm") # {}
    /\ calls[Len(calls)].outcome = "raised"
    /\ calls[Len(calls)].exc = <<"a", WS, "a">>
    /\ response.status = 500

\* C8: when the summarization call returns, processed_text of the 200
\* response is the content of the first choice's message, or the placeholder
\* when there is no content (no choice, no message, content null or empty);
\* it is never null or empty.
C8_ProcessedTextNeverEmpty ==
    \A i \in CallsTo("llm") :
        (Responded /\ calls[i].outcome = "ok")
        => /\ response.status = 200
           /\ "processed_text" \in DOMAIN response.body
           /\ response.body["processed_text"] \notin {JNull, JStr(<<>>)}
           /\ response.body["processed_text"] =
                 IF /\ chat_completion.choices # <<>>
                    /\ chat_completion.choices[1].has_message
                    /\ chat_completion.choices[1].content \notin {JNull, JStr(<<>>)}
                 THEN chat_completion.choices[1].content
                 ELSE JStr(PLACEHOLDER)

\* C9: for one request the extractor is called at most once and the
\* summarization API at most once, never the summarization before the
\* extraction, and a call that failed is the last call: the response
\* follows it at once and nothing is retried.
C9_NoRetry ==
    /\ Cardinality(CallsTo("extractor")) <= 1
    /\ Cardinality(CallsTo("llm")) <= 1
    /\ \A i \in CallsTo("llm") : \A j \in CallsTo("extractor") : j < i
    /\ \A i \in 1..Len(calls) :
          calls[i].outcome \in {"empty", "raised", "rate_limited"}
          => i = Len(calls) /\ Responded

C9_Witness ==
    /\ Responded
    /\ Len(calls) = 2
    /\ calls[1].svc = "extractor" /\ calls[1].outcome = "ok"
    /\ calls[2].svc = "llm" /\ calls[2].outcome = "rate_limited"

\* C10: when the download or the parse of a non-blank url raises, the answer
\* is 500 with the generic error body, the summarization API is not called
\* and a non-blank text field is not used instead.
C10_ExtractionErrorIs500 ==
    \A j \in CallsTo("extractor") :
        calls[j].outcome = "raised"
        => /\ Responded
           /\ response.status = 500
           /\ HasErrorBody(response)
           /\ response.body["error"] = JStr(ERR_URL)
           /\ ~Contains(response.body["error"].s, calls[j].exc)
           /\ CallsTo("llm") = {}
           /\ received_text = <<>>

C10_Witness ==
    /\ Responded
    /\ CallsTo("extractor") # {}
    /\ calls[Len(calls)].outcome = "raised"
    /\ FieldNonBlank(data, "text")
    /\ response.status = 500

====
